---------------------------- MODULE Spec2Model ----------------------------
(***************************************************************************)
(* Model of Task6_dashboard.py: the Streamlit script that loads            *)
(* superstore.csv (load_data), filters it by Region / Category /           *)
(* Sub-Category and aggregates the filtered frame.                         *)
(*                                                                         *)
(* A column name is a sequence of one-character strings.  A cell is a      *)
(* tagged record: NaN, a number, a text, or the text of a date.  Amounts   *)
(* are integers (the rounding of float64 sums is not modelled).            *)
(***************************************************************************)
EXTENDS Integers, Sequences, FiniteSets

VARIABLES
    file,    \* the CSV on disk: NoFile, or [header, rows]
    cache,   \* the memo of st.cache_data for load_data(): NoCache or a result
    page,    \* what the last run of the script produced
    cols,    \* column names under normalization (specification SpecNorm)
    passes   \* how many times cols has been normalized (SpecNorm)

vars == <<file, cache, page, cols, passes>>

-----------------------------------------------------------------------------
(* Bounds *)

\* The longest column name that is enumerated character by character.
MaxNameLen == 3

\* How many times SpecNorm normalizes a header.
MaxPasses == 2

\* The most data rows a file holds (a prefix of RowPool).
MaxRows == 12

-----------------------------------------------------------------------------
(* Column names: lines 27-30 *)

\* What the regular expression \s matches, of the characters modelled.
IsSpace(c) == c \in {" ", "\t"}

\* .str.replace(r"\.", " ", regex=True)
ReplaceDots(s) == [i \in DOMAIN s |-> IF s[i] = "." THEN " " ELSE s[i]]

RECURSIVE DropSpaces(_)
DropSpaces(s) ==
    IF s # <<>> /\ IsSpace(Head(s)) THEN DropSpaces(Tail(s)) ELSE s

\* .str.replace(r"\s+", " ", regex=True): every maximal run of whitespace
\* becomes one space.
RECURSIVE CollapseSpaces(_)
CollapseSpaces(s) ==
    IF s = <<>> THEN <<>>
    ELSE IF IsSpace(Head(s)) THEN <<" ">> \o CollapseSpaces(DropSpaces(Tail(s)))
    ELSE <<Head(s)>> \o CollapseSpaces(Tail(s))

RECURSIVE DropTrailingSpaces(_)
DropTrailingSpaces(s) ==
    IF s # <<>> /\ IsSpace(s[Len(s)])
    THEN DropTrailingSpaces(SubSeq(s, 1, Len(s) - 1))
    ELSE s

\* .str.strip()
Strip(s) == DropTrailingSpaces(DropSpaces(s))

\* A plausible slip: the name is stripped before the dots become spaces.
CleanNameStripFirst(s) == CollapseSpaces(ReplaceDots(Strip(s)))

\* Line 28, for one name.
CleanName(s) == Strip(CollapseSpaces(ReplaceDots(s)))

N_Sales == <<"S", "a", "l", "e", "s">>
N_Profit == <<"P", "r", "o", "f", "i", "t">>
N_OrderDate == <<"O", "r", "d", "e", "r", " ", "D", "a", "t", "e">>
N_Region == <<"R", "e", "g", "i", "o", "n">>
N_Category == <<"C", "a", "t", "e", "g", "o", "r", "y">>
N_SubCategory == <<"S", "u", "b", "-", "C", "a", "t", "e", "g", "o", "r", "y">>
N_SubCategorySpace == <<"S", "u", "b", " ", "C", "a", "t", "e", "g", "o", "r", "y">>
N_CustomerName ==
    <<"C", "u", "s", "t", "o", "m", "e", "r", " ", "N", "a", "m", "e">>
N_RowID == <<"R", "o", "w", " ", "I", "D">>

\* A plausible slip: line 30 left out.
RenameColumnNot(s) == s

\* Line 30: df.rename(columns={"Sub Category": "Sub-Category"}), for one name.
RenameColumn(s) == IF s = N_SubCategorySpace THEN N_SubCategory ELSE s

\* Lines 28-30 for a whole header.
NormalizeColumns(h) == [i \in DOMAIN h |-> RenameColumn(CleanName(h[i]))]

-----------------------------------------------------------------------------
(* Cells, rows and files *)

NaN == [k |-> "nan"]
Num(n) == [k |-> "num", v |-> n]
Txt(s) == [k |-> "str", v |-> s]
\* The text "y-m-d" in the CSV, before pd.to_datetime.
Ymd(y, m, d) == [k |-> "ymd", y |-> y, m |-> m, d |-> d]
\* A parsed date; v orders dates.
Date(n) == [k |-> "date", v |-> n]

IsNull(c) == c.k = "nan"

\* One source row, field by field.
Row(sales, profit, date, region, category, sub, customer, id) ==
    [Sales |-> sales, Profit |-> profit, OrderDate |-> date, Region |-> region,
     Category |-> category, SubCategory |-> sub, CustomerName |-> customer,
     RowID |-> id]

D1 == Ymd(2021, 1, 1)
D2 == Ymd(2021, 1, 2)
D3 == Ymd(2021, 1, 3)

\* The source rows files are cut from.  Rows 1-3 are the three records of a
\* small store; the others miss a value or add customers.
RowPool ==
    << Row(Num(100), Num(10), D1, Txt("East"), Txt("Tech"), Txt("Phones"), Txt("A"), Num(1)),
       Row(Num(200), Num(-5), D2, Txt("West"), Txt("Tech"), Txt("Phones"), Txt("B"), Num(2)),
       Row(Num(50), Num(5), D1, Txt("East"), Txt("Furniture"), Txt("Chairs"), Txt("A"), Num(3)),
       Row(NaN, Num(9), D1, Txt("East"), Txt("Tech"), Txt("Phones"), Txt("B"), Num(4)),
       Row(Num(70), Num(7), D3, NaN, Txt("Tech"), Txt("Phones"), Txt("C"), Num(5)),
       Row(Num(30), Num(3), D2, Txt("East"), NaN, Txt("Chairs"), Txt("D"), Num(6)),
       Row(Num(60), NaN, D2, Txt("West"), Txt("Tech"), NaN, Txt("C"), Num(7)),
       Row(Num(40), Num(4), D3, Txt("West"), Txt("Furniture"), Txt("Chairs"), NaN, Num(8)),
       Row(Num(70), Num(1), D2, Txt("West"), Txt("Furniture"), Txt("Chairs"), Txt("E"), Num(9)),
       Row(Num(90), Num(2), Ymd(2021, 2, 30), Txt("East"), Txt("Tech"), Txt("Phones"), Txt("F"), Num(10)),
       Row(Num(30), Num(-2), D1, Txt("East"), Txt("Tech"), Txt("Phones"), Txt("F"), Num(11)),
       Row(Num(10), Num(1), NaN, Txt("East"), Txt("Tech"), Txt("Phones"), Txt("G"), Num(12)),
       Row(Num(20), Num(6), Txt("soon"), Txt("West"), Txt("Tech"), Txt("Phones"), Txt("G"), Num(13)),
       Row(Num(20), Num(6), D3, Txt("West"), Txt("Tech"), NaN, Txt("G"), Num(14)) >>

Col(name, field) == [name |-> name, field |-> field]

\* "Order.Date" style headers.
H_Dots ==
    << Col(N_Sales, "Sales"), Col(N_Profit, "Profit"),
       Col(<<"O", "r", "d", "e", "r", ".", "D", "a", "t", "e">>, "OrderDate"),
       Col(N_Region, "Region"), Col(N_Category, "Category"),
       Col(<<"S", "u", "b", ".", "C", "a", "t", "e", "g", "o", "r", "y">>, "SubCategory"),
       Col(<<"C", "u", "s", "t", "o", "m", "e", "r", ".", "N", "a", "m", "e">>, "CustomerName") >>

\* "Order Date" style headers with stray whitespace, another column order, a
\* passthrough column and the header "Sub Category".
H_Spaces ==
    << Col(<<"R", "o", "w", ".", "I", "D">>, "RowID"),
       Col(<<" ", "R", "e", "g", "i", "o", "n">>, "Region"),
       Col(<<"C", "a", "t", "e", "g", "o", "r", "y", "\t">>, "Category"),
       Col(N_SubCategorySpace, "SubCategory"),
       Col(<<"C", "u", "s", "t", "o", "m", "e", "r", " ", "\t", "N", "a", "m", "e">>, "CustomerName"),
       Col(<<"O", "r", "d", "e", "r", " ", " ", "D", "a", "t", "e">>, "OrderDate"),
       Col(N_Sales, "Sales"), Col(N_Profit, "Profit") >>

\* H_Dots without its Region column.
H_NoRegion == SelectSeq(H_Dots, LAMBDA c : c.field # "Region")

\* H_Spaces without Sales and Customer Name.
H_NoSalesNoCustomer ==
    SelectSeq(H_Spaces, LAMBDA c : c.field \notin {"Sales", "CustomerName"})

NoFile == [header |-> <<>>, rows |-> <<>>, exists |-> FALSE]

\* The CSV with header h and the first n rows of RowPool.
CsvFile(h, n) ==
    [header |-> [i \in DOMAIN h |-> h[i].name],
     rows |-> [j \in 1..n |-> [i \in DOMAIN h |-> RowPool[j][h[i].field]]],
     exists |-> TRUE]

Files ==
    {NoFile}
    \cup {CsvFile(H_Dots, n) : n \in 0..MaxRows}
    \cup {CsvFile(h, MaxRows) : h \in {H_Spaces, H_NoRegion, H_NoSalesNoCustomer}}

-----------------------------------------------------------------------------
(* load_data: lines 9-43 *)

\* Line 33.
required ==
    <<N_Sales, N_Profit, N_OrderDate, N_Region, N_Category, N_SubCategory,
      N_CustomerName>>

InSeq(x, s) == \E i \in DOMAIN s : s[i] = x

\* The position of column name in columns.  The headers modelled have no two
\* names that normalize to the same name.
ColIndex(columns, name) == CHOOSE i \in DOMAIN columns : columns[i] = name

\* row[name] in a frame with these columns.
Cell(columns, row, name) == row[ColIndex(columns, name)]

\* A plausible slip: only Sales is looked at.
DropNaAny(columns, rows, subset) ==
    SelectSeq(rows, LAMBDA r : ~IsNull(Cell(columns, r, subset[1])))

\* df.dropna(subset=...): a row stays when none of the subset's cells is NaN.
DropNa(columns, rows, subset) ==
    SelectSeq(rows, LAMBDA r :
        \A i \in DOMAIN subset : ~IsNull(Cell(columns, r, subset[i])))

\* pd.to_datetime(cell, errors="coerce") on a text column: the text of a
\* calendar date becomes that date, anything else NaT (a null).
DaysIn(y, m) ==
    IF m = 2 THEN (IF y % 4 = 0 /\ (y % 100 # 0 \/ y % 400 = 0) THEN 29 ELSE 28)
    ELSE IF m \in {4, 6, 9, 11} THEN 30 ELSE 31

ToDatetime(c) ==
    IF c.k = "ymd" /\ c.m \in 1..12 /\ c.d \in 1..DaysIn(c.y, c.m)
    THEN Date(c.y * 10000 + c.m * 100 + c.d)
    ELSE NaN

\* Line 40.
ParseOrderDate(columns, rows) ==
    [j \in DOMAIN rows |->
        [i \in DOMAIN columns |->
            IF columns[i] = N_OrderDate THEN ToDatetime(rows[j][i])
            ELSE rows[j][i]]]

NoFrame == [columns |-> <<>>, rows |-> <<>>]

Raised(kind, missing, found) ==
    [ok |-> FALSE, kind |-> kind, missing |-> missing, found |-> found,
     df |-> NoFrame]

Returned(df) ==
    [ok |-> TRUE, kind |-> "none", missing |-> <<>>, found |-> <<>>, df |-> df]

\* Lines 38-41.
Clean(columns, rows) ==
    DropNa(columns,
           ParseOrderDate(columns, DropNa(columns, rows, <<N_Sales, N_Profit>>)),
           <<N_OrderDate>>)

\* The body of load_data.  file stands for the first of the four candidate
\* paths that exists (NoFile: none does).
load_data(f) ==
    IF ~f.exists THEN Raised("FileNotFoundError", <<>>, <<>>)
    ELSE LET columns == NormalizeColumns(f.header)
             missing == SelectSeq(required, LAMBDA c : ~InSeq(c, columns))
         IN  IF missing # <<>> THEN Raised("KeyError", missing, columns)
             ELSE Returned([columns |-> columns, rows |-> Clean(columns, f.rows)])

NoCache == [ok |-> FALSE, kind |-> "empty", missing |-> <<>>, found |-> <<>>,
            df |-> NoFrame]

\* A plausible slip: the memo keeps whatever the call ended with.
CachedCallKeepsFailure(c, f) ==
    IF c # NoCache THEN [result |-> c, cache |-> c]
    ELSE [result |-> load_data(f), cache |-> load_data(f)]

\* A plausible slip: no memo (the decorator left out).
CachedCallNoMemo(c, f) ==
    [result |-> load_data(f),
     cache |-> IF load_data(f).ok THEN load_data(f) ELSE NoCache]

\* @st.cache_data on a function without arguments: one entry, written when
\* the body returns; an exception passes through and nothing is stored.
CachedCall(c, f) ==
    IF c # NoCache THEN [result |-> c, cache |-> c]
    ELSE LET r == load_data(f)
         IN  [result |-> r, cache |-> IF r.ok THEN r ELSE NoCache]

-----------------------------------------------------------------------------
(* The script below load_data: lines 45-114 *)

\* Line 91: head(5).
TopN == 5

\* sorted(df[name].dropna().unique().tolist()), as a set.
Options(df, name) ==
    {Cell(df.columns, df.rows[j], name).v :
        j \in {i \in DOMAIN df.rows : ~IsNull(Cell(df.columns, df.rows[i], name))}}

\* rows[rows[name].isin(values)]
Isin(columns, rows, name, values) ==
    SelectSeq(rows, LAMBDA r :
        /\ Cell(columns, r, name).k = "str"
        /\ Cell(columns, r, name).v \in values)

\* A plausible slip: an empty list filters like any other list.
FilterByAlways(columns, rows, name, values) == Isin(columns, rows, name, values)

\* Lines 64-65 (66-67, 68-69): "if values:" guards the filter.
FilterBy(columns, rows, name, values) ==
    IF values # {} THEN Isin(columns, rows, name, values) ELSE rows

\* Lines 63-69.
ApplyFilters(df, sel) ==
    FilterBy(df.columns,
        FilterBy(df.columns,
            FilterBy(df.columns, df.rows, N_Region, sel.region),
            N_Category, sel.category),
        N_SubCategory, sel.sub_category)

\* rows[name].sum()
RECURSIVE SumOf(_, _, _)
SumOf(columns, rows, name) ==
    IF rows = <<>> THEN 0
    ELSE (IF Cell(columns, Head(rows), name).k = "num"
          THEN Cell(columns, Head(rows), name).v ELSE 0)
         + SumOf(columns, Tail(rows), name)

\* The keys of groupby(by): the distinct values of the column, NaN left out.
GroupKeys(columns, rows, by) ==
    {Cell(columns, rows[j], by) :
        j \in {i \in DOMAIN rows : ~IsNull(Cell(columns, rows[i], by))}}

\* groupby(by, as_index=False)[["Sales", "Profit"]].sum(), as a set of rows.
GroupSums(columns, rows, by) ==
    {[key |-> g.v,
      Sales |-> SumOf(columns, SelectSeq(rows, LAMBDA r : Cell(columns, r, by) = g), N_Sales),
      Profit |-> SumOf(columns, SelectSeq(rows, LAMBDA r : Cell(columns, r, by) = g), N_Profit)] :
        g \in GroupKeys(columns, rows, by)}

\* sort_values("Sales", ascending=False): every order of the groups in which
\* Sales never rises; the order among equal sums is the sort's to choose.
RECURSIVE SalesDescending(_)
SalesDescending(G) ==
    IF G = {} THEN {<<>>}
    ELSE UNION {{<<g>> \o t : t \in SalesDescending(G \ {g})} :
                    g \in {x \in G : \A y \in G : y.Sales <= x.Sales}}

\* sort_values("Order Date"): the keys are distinct dates.
RECURSIVE KeyAscending(_)
KeyAscending(G) ==
    IF G = {} THEN <<>>
    ELSE LET g == CHOOSE x \in G : \A y \in G : x.key <= y.key
         IN  <<g>> \o KeyAscending(G \ {g})

\* A plausible slip: one row too many.
HeadTooLong(s, n) == SubSeq(s, 1, IF Len(s) < n + 1 THEN Len(s) ELSE n + 1)

\* .head(n)
Head_(s, n) == SubSeq(s, 1, IF Len(s) < n THEN Len(s) ELSE n)

NameSales(s) == [i \in DOMAIN s |-> [key |-> s[i].key, Sales |-> s[i].Sales]]

\* Lines 88-92.
top_customers(columns, rows) ==
    {Head_(NameSales(s), TopN) :
        s \in SalesDescending(GroupSums(columns, rows, N_CustomerName))}

\* Lines 99-102.
category_summary(columns, rows) ==
    SalesDescending(GroupSums(columns, rows, N_Category))

\* Lines 109-112.
sales_time(columns, rows) ==
    NameSales(KeyAscending(GroupSums(columns, rows, N_OrderDate)))

-----------------------------------------------------------------------------
(* One run of the script *)

\* The values a list handed to lines 64-69 may hold.  "Nonexistent" is a
\* value no row has: the widgets offer only values of the frame, the filter
\* itself takes any list.
RegionChoices == {"East", "Nonexistent"}
CategoryChoices == {"Tech", "Furniture"}
SubCategoryChoices == {"Phones"}

Selections ==
    [region : SUBSET RegionChoices, category : SUBSET CategoryChoices,
     sub_category : SUBSET SubCategoryChoices]

NoSelection == [region |-> {}, category |-> {}, sub_category |-> {}]

\* Lines 55-60: default=options, for each of the three widgets.
DefaultSelection(df) ==
    [region |-> Options(df, N_Region), category |-> Options(df, N_Category),
     sub_category |-> Options(df, N_SubCategory)]

NoReport == [none |-> TRUE]

\* Lines 46-47: load_data() raised nothing.
NoError ==
    [ok |-> TRUE, kind |-> "none", missing |-> <<>>, found |-> <<>>,
     df |-> NoFrame]

\* Lines 77-114: the five aggregates, for each order the two sorts may give.
Reports(columns, rows) ==
    {[total_sales |-> SumOf(columns, rows, N_Sales),
      total_profit |-> SumOf(columns, rows, N_Profit),
      top_customers |-> t,
      category_summary |-> c,
      sales_time |-> sales_time(columns, rows)] :
        t \in top_customers(columns, rows), c \in category_summary(columns, rows)}

\* A plausible slip: the check of line 73 left out.
StopsNever(rows) == FALSE

\* Line 73: filtered_df.empty
Stops(rows) == rows = <<>>

Page(status, error, sel, rows, report) ==
    [status |-> status, error |-> error, selection |-> sel, filtered |-> rows,
     report |-> report]

\* Lines 45-114 with the value load_data() ended with and the lists the
\* widgets returned: the pages the run may end on.
Script(result, sel) ==
    IF ~result.ok
    THEN {Page("load_error", result, NoSelection, <<>>, NoReport)}
    ELSE LET filtered == ApplyFilters(result.df, sel)
         IN  IF Stops(filtered)
             THEN {Page("empty", NoError, sel, filtered, NoReport)}
             ELSE {Page("report", NoError, sel, filtered, r) :
                       r \in Reports(result.df.columns, filtered)}

Init ==
    /\ file \in Files
    /\ cache = NoCache
    /\ page = Page("not run", NoError, NoSelection, <<>>, NoReport)
    /\ cols = <<>>
    /\ passes = 0

\* Somebody replaces, adds or removes the CSV.
WriteFile ==
    /\ \E f \in Files \ {file} : file' = f
    /\ UNCHANGED <<cache, page, cols, passes>>

\* A run of the script in a fresh session: the widgets return their defaults.
RunDefault ==
    LET call == CachedCall(cache, file)
    IN  /\ cache' = call.cache
        /\ page' \in Script(call.result, DefaultSelection(call.result.df))
        /\ UNCHANGED <<file, cols, passes>>

\* A run of the script after the user changed a widget.
RunSelected ==
    LET call == CachedCall(cache, file)
    IN  /\ cache' = call.cache
        /\ \E sel \in Selections : page' \in Script(call.result, sel)
        /\ UNCHANGED <<file, cols, passes>>

Next == WriteFile \/ RunDefault \/ RunSelected

Spec == Init /\ [][Next]_vars

-----------------------------------------------------------------------------
(* Normalization on its own: headers spelled out character by character *)

Alphabet == {"a", ".", " ", "\t"}

ShortNames == UNION {[1..n -> Alphabet] : n \in 1..MaxNameLen}

RawNames(h) == [i \in DOMAIN h |-> h[i].name]

NormInputs ==
    {<<n>> \o h : n \in ShortNames,
                  h \in {<<>>, RawNames(H_Dots), RawNames(H_Spaces)}}

InitNorm ==
    /\ file = NoFile
    /\ cache = NoCache
    /\ page = Page("not run", NoError, NoSelection, <<>>, NoReport)
    /\ cols \in NormInputs
    /\ passes = 0

\* Lines 28-30 applied to the header at hand.
Normalize ==
    /\ passes < MaxPasses
    /\ cols' = NormalizeColumns(cols)
    /\ passes' = passes + 1
    /\ UNCHANGED <<file, cache, page>>

NextNorm == Normalize

SpecNorm == InitNorm /\ [][NextNorm]_vars

-----------------------------------------------------------------------------
(* Properties *)

Ran == page.status \in {"empty", "report"}

Range(s) == {s[i] : i \in DOMAIN s}

\* The step is a run of the script that had to execute the body of load_data.
LoadStep == cache = NoCache /\ file' = file

\* C1: when load_data returns, every row of the frame has a non-null Sales,
\* a non-null Profit and a parsed Order Date, and no source row that misses
\* Sales or Profit, or whose Order Date is missing or is no date, is in it.
C1_LoadedRowsAreClean ==
    [][(cache = NoCache /\ cache' # NoCache) =>
        LET c == cache'.df.columns
            rows == cache'.df.rows
            iD == ColIndex(c, N_OrderDate)
            src == file.rows
            Dirty(j) ==
                \/ IsNull(src[j][ColIndex(c, N_Sales)])
                \/ IsNull(src[j][ColIndex(c, N_Profit)])
                \/ src[j][iD].k # "ymd"
                \/ src[j][iD].m \notin 1..12
                \/ src[j][iD].d \notin 1..DaysIn(src[j][iD].y, src[j][iD].m)
            From(r, j) == \A i \in DOMAIN c : i # iD => r[i] = src[j][i]
        IN  /\ file.exists
            /\ \A k \in DOMAIN rows :
                /\ ~IsNull(Cell(c, rows[k], N_Sales))
                /\ ~IsNull(Cell(c, rows[k], N_Profit))
                /\ Cell(c, rows[k], N_OrderDate).k = "date"
                /\ \E j \in DOMAIN src : From(rows[k], j)
            /\ \A j \in DOMAIN src :
                Dirty(j) => \A k \in DOMAIN rows : ~From(rows[k], j)]_vars

\* A frame was loaded from a file that is still there, and rows were dropped.
C1_Witness ==
    /\ cache # NoCache
    /\ file.exists
    /\ Len(file.rows) = MaxRows
    /\ NormalizeColumns(file.header) = cache.df.columns
    /\ Len(cache.df.rows) >= 3
    /\ Len(cache.df.rows) < Len(file.rows)

\* C2 (as claimed): the filtered frame holds rows of the loaded frame only,
\* and with the three default lists it is the loaded frame.
C2_DefaultSelectionKeepsAll ==
    Ran =>
        /\ Range(page.filtered) \subseteq Range(cache.df.rows)
        /\ (page.selection = DefaultSelection(cache.df)
                => page.filtered = cache.df.rows)

\* C3 (as claimed): Total Sales is the sum of the Sales of the rows of the
\* category summary.
RECURSIVE SumSales(_)
SumSales(s) == IF s = <<>> THEN 0 ELSE Head(s).Sales + SumSales(Tail(s))

C3_TotalIsSumOfCategories ==
    page.status = "report" =>
        page.report.total_sales = SumSales(page.report.category_summary)

C5_FilterIsConjunction ==
    Ran =>
        LET c == cache.df.columns
            Pass(r, name, values) ==
                \/ values = {}
                \/ \E v \in values : Cell(c, r, name) = Txt(v)
        IN  page.filtered =
                SelectSeq(cache.df.rows, LAMBDA r :
                    /\ Pass(r, N_Region, page.selection.region)
                    /\ Pass(r, N_Category, page.selection.category)
                    /\ Pass(r, N_SubCategory, page.selection.sub_category))

\* Two lists restrict, one is empty, and rows of both kinds exist.
C5_Witness ==
    /\ page.status = "report"
    /\ page.selection = [region |-> {"East"}, category |-> {},
                         sub_category |-> {"Phones"}]
    /\ Len(page.filtered) >= 2
    /\ Len(page.filtered) < Len(cache.df.rows)

\* C6: load_data raises the KeyError exactly when a required name is not
\* among the normalized column names; the error holds the absent required
\* names and all the normalized names, and nothing is stored.  The header
\* "Sub Category" passes; a header without "Region" fails on "Region".
C6_SchemaError ==
    [][(LoadStep /\ file.exists) =>
        LET found == NormalizeColumns(file.header)
            absent == Range(required) \ Range(found)
        IN  /\ (absent # {}) <=>
                    (page'.status = "load_error" /\ page'.error.kind = "KeyError")
            /\ absent # {} =>
                /\ Range(page'.error.missing) = absent
                /\ page'.error.found = found
                /\ page'.error.df = NoFrame
                /\ cache' = NoCache
            /\ absent = {} => cache'.ok
            /\ file.header = RawNames(H_Spaces) => cache'.ok
            /\ file.header = RawNames(H_NoRegion) =>
                    page'.error.missing = <<N_Region>>]_vars

\* A run ended on a schema error that names two columns.
C6_Witness ==
    /\ page.status = "load_error"
    /\ page.error.kind = "KeyError"
    /\ page.error.missing = <<N_Sales, N_CustomerName>>
    /\ InSeq(N_SubCategory, page.error.found)

\* C7: a run that filters ends on the warning with no aggregate when the
\* filtered frame is empty, and with all five aggregates otherwise; the list
\* {"Nonexistent"} for Region ends on the warning.
C7_FullReportOrNone ==
    /\ page.status \in {"not run", "load_error"} => page.report = NoReport
    /\ Ran =>
        /\ page.filtered = <<>> =>
                (page.status = "empty" /\ page.report = NoReport)
        /\ page.filtered # <<>> =>
                /\ page.status = "report"
                /\ DOMAIN page.report =
                        {"total_sales", "total_profit", "top_customers",
                         "category_summary", "sales_time"}
        /\ page.selection.region = {"Nonexistent"} => page.status = "empty"

\* Rows were loaded, and Region = {"Nonexistent"} matched none of them.
C7_Witness ==
    /\ page.status = "empty"
    /\ page.selection.region = {"Nonexistent"}
    /\ cache.df.rows # <<>>

\* C8: the top customers are min(5, number of customers) rows, Sales never
\* rises along them, each row holds a customer of the filtered frame once
\* with the sum of that customer's Sales, and no customer left out has a
\* larger sum than one listed.
C8_TopCustomers ==
    page.status = "report" =>
        LET c == cache.df.columns
            t == page.report.top_customers
            customers == {Cell(c, page.filtered[j], N_CustomerName).v :
                            j \in {i \in DOMAIN page.filtered :
                                ~IsNull(Cell(c, page.filtered[i], N_CustomerName))}}
            Bought(x) ==
                SumOf(c, SelectSeq(page.filtered, LAMBDA r :
                            Cell(c, r, N_CustomerName) = Txt(x)), N_Sales)
            listed == {t[i].key : i \in DOMAIN t}
        IN  /\ Len(t) = IF Cardinality(customers) < 5
                        THEN Cardinality(customers) ELSE 5
            /\ \A i \in 1..(Len(t) - 1) : t[i + 1].Sales <= t[i].Sales
            /\ \A i \in DOMAIN t :
                    t[i].key \in customers /\ t[i].Sales = Bought(t[i].key)
            /\ Cardinality(listed) = Len(t)
            /\ \A x \in customers \ listed :
                    \A i \in DOMAIN t : Bought(x) <= t[i].Sales

\* Six customers, five listed, two of them with the same sum.
C8_Witness ==
    /\ page.status = "report"
    /\ Len(page.report.top_customers) = 5
    /\ Cardinality(GroupKeys(cache.df.columns, page.filtered, N_CustomerName)) = 6
    /\ page.report.top_customers[3].Sales = page.report.top_customers[4].Sales

\* C9: once load_data has returned, no step changes the frame it returned.
C9_DatasetImmutable == [][cache # NoCache => cache' = cache]_vars

\* The file is gone, the frame is still there and a report was made of it.
C9_Witness ==
    /\ cache # NoCache
    /\ ~file.exists
    /\ page.status = "report"
    /\ Len(page.filtered) < Len(cache.df.rows)

\* C10: normalizing a header that was normalized before leaves it as it is.
C10_NormalizeIdempotent == [][passes >= 1 => cols' = cols]_vars

\* A header was normalized twice; it came with "Order.Date" or
\* "Order  Date" and "Sub.Category" or "Sub Category".
C10_Witness ==
    /\ passes = MaxPasses
    /\ InSeq(N_SubCategory, cols)
    /\ InSeq(N_OrderDate, cols)
    /\ Head(cols) = <<"a", " ", "a">>

=============================================================================
